---- MODULE Spec2Model ----
(***************************************************************************)
(* Credential and session lifecycle of the SecureShop API: the login       *)
(* handler with its rate-limit gate and lockout counter, refresh-token     *)
(* rotation, logout, and the authenticate / optionalAuth middleware, over  *)
(* the shared Redis store and the users table.                             *)
(*                                                                         *)
(* Every handler is split at its awaits on the shared stores, so requests  *)
(* interleave exactly where the event loop can switch between them.        *)
(* In-flight requests are kept in a bag: requests have no identity of      *)
(* their own, and two requests with the same inputs at the same await are  *)
(* interchangeable.                                                        *)
(*                                                                         *)
(* Time is counted in units of 450 seconds, half a rate-limit window.       *)
(***************************************************************************)
EXTENDS Integers, Sequences, FiniteSets, Bags, TLC

\* ------------------------------------------------------------------------
\* Bounds of the model
\* ------------------------------------------------------------------------
MaxTime == 2          \* the clock runs 0..MaxTime
MaxLoginTime == 4     \* the clock of SpecExpiry runs 0..MaxLoginTime
MaxSid == 3           \* session ids randomUUID can hand out
MaxSessions == 2      \* sessions opened in Spec
MaxInflight == 2      \* requests in flight at once in SpecRace, SpecGuard
MaxRateCount == 7     \* cap on a rate-limit counter
MaxBurst == 7         \* login requests of one burst (SpecBurst)
InitialStock == 2     \* product.quantity before the first order
MaxOrders == 2        \* orders created (SpecOrders)
MaxQuantity == 4      \* cap on product.quantity (SpecOrders)

\* ------------------------------------------------------------------------
\* Program constants (unit of time: 450 seconds)
\* ------------------------------------------------------------------------
AccessExpiry == 2            \* jwtConfig.accessToken.expiresIn '15m'
RefreshExpiry == 1344         \* jwtConfig.refreshToken.expiresIn '7d'
maxLoginAttempts == 5        \* passwordConfig.maxLoginAttempts
lockoutDuration == 4         \* passwordConfig.lockoutDuration 30 min
LoginRateMax == 5            \* checkRateLimit(rateLimitKey, 5, ...)
LoginRateWindow == 2         \* checkRateLimit(..., 15 * 60)
SessionTtlDefault == 192      \* login: 24 hours
SessionTtlRemember == 5760   \* login with rememberMe: 30 days
SessionTtlRefresh == 1344     \* refresh: 7 days
BlacklistTtl == 1344          \* blacklistSession default expiresIn, 7 days

UserIds == {"u1", "u2"}
Emails == UserIds \cup {"nobody"}
Ips == {"ip1", "ip2"}
Sids == 1..MaxSid
Null == 0                     \* null timestamp / absent key

\* Request paths, as segment sequences
PathRoot == <<>>
PathRefresh == <<"api", "v1", "auth", "refresh">>
PathLogout == <<"api", "v1", "auth", "logout">>
PathMe == <<"api", "v1", "auth", "me">>

VARIABLES
  now,        \* wall clock
  users,      \* users table: id -> [isActive, failedLoginAttempts, lockedUntil]
  session,    \* Redis session:<sid> -> [uid, exp] (exp = Null: no key)
  blacklist,  \* Redis blacklist:session:<sid> -> expiry (Null: no key)
  ratelimit,  \* Redis ratelimit:login:<ip>:<email> -> [count, exp]
  authLimit,  \* express-rate-limit store of /auth: ip -> [count, exp]
  client,     \* the front end's axios instance handling one call
  shop,       \* a product's stock, its orders, the order handlers in flight
  nextSid,    \* next session id randomUUID returns
  born,       \* history: sid -> [uid, at] of the login or refresh that made it
  parent,     \* history: sid -> sid of the refresh token it was rotated from
  jar,        \* the browser's cookie jar
  reqs,       \* bag of requests in flight or answered and not yet delivered
  hist        \* history variables used by the properties

vars == <<now, users, session, blacklist, ratelimit, authLimit, client, shop,
          nextSid, born, parent, jar, reqs, hist>>

\* ------------------------------------------------------------------------
\* Tokens (auth.middleware: TokenPayload, generate*/verify*)
\* ------------------------------------------------------------------------
NoToken == [kind |-> "none", uid |-> "none", sid |-> 0, exp |-> 0]

\* jwt.sign with the access secret and expiresIn
generateAccessToken(uid, sid, t) ==
  [kind |-> "access", uid |-> uid, sid |-> sid, exp |-> t + AccessExpiry]

\* jwt.sign with the refresh secret and expiresIn
generateRefreshToken(uid, sid, t) ==
  [kind |-> "refresh", uid |-> uid, sid |-> sid, exp |-> t + RefreshExpiry]

jwtVerifyExpiryFirst(token, kind, t) ==
  IF t >= token.exp THEN "TokenExpiredError"
  ELSE IF token.kind # kind THEN "JsonWebTokenError"
  ELSE "ok"

\* jwt.verify: the signature is checked first (a token signed with the other
\* secret fails with JsonWebTokenError), then the expiry.
jwtVerify(token, kind, t) ==
  IF token.kind # kind THEN "JsonWebTokenError"
  ELSE IF t >= token.exp THEN "TokenExpiredError"
  ELSE "ok"

verifyAccessToken(token, t) == jwtVerify(token, "access", t)

verifyRefreshToken(token, t) == jwtVerify(token, "refresh", t)

\* ------------------------------------------------------------------------
\* Cookies (security.config: cookieConfig; browser path matching)
\* ------------------------------------------------------------------------
cookieConfigAccessPath == PathRoot

cookieConfigRefreshPath == PathRefresh

IsPrefix(p, s) == Len(p) <= Len(s) /\ \A i \in 1..Len(p) : p[i] = s[i]

\* The cookie a browser sends for a stored cookie of the given path
CookieSent(tok, cookiePath, reqPath) ==
  IF IsPrefix(cookiePath, reqPath) THEN tok ELSE NoToken

\* ------------------------------------------------------------------------
\* Redis helpers: a key is live while its expiry lies in the future
\* ------------------------------------------------------------------------
NoSession == [uid |-> "none", exp |-> Null]

redisGetSession(sid) ==
  IF session[sid].exp # Null /\ session[sid].exp > now THEN session[sid]
  ELSE NoSession

BlacklistKeyLive(sid) == blacklist[sid] # Null /\ blacklist[sid] > now

\* A ledger lookup that never finds an entry
isSessionBlacklistedNever(sid) == FALSE

\* isSessionBlacklisted: redis.get(`blacklist:session:${sessionId}`) !== null
isSessionBlacklisted(sid) == BlacklistKeyLive(sid)

NoRate == [count |-> 0, exp |-> Null]

\* exp = Null: no key; exp = -1: key without expiry; exp > 0: expires at exp
RateKeyLive(k) ==
  ratelimit[k].count > 0 /\ (ratelimit[k].exp = -1 \/ ratelimit[k].exp > now)

\* ------------------------------------------------------------------------
\* Passwords: bcrypt.compare(password, user.passwordHash)
\* ------------------------------------------------------------------------
Passwords == {"right", "wrong"}

bcryptHash(pw) == <<"bcrypt", pw>>

passwordHash(uid) == bcryptHash("right")

bcryptCompare(pw, h) == bcryptHash(pw) = h

\* ------------------------------------------------------------------------
\* Requests
\* ------------------------------------------------------------------------
NoUser == [found |-> FALSE, isActive |-> FALSE, failedLoginAttempts |-> 0,
           lockedUntil |-> Null]

BaseReq ==
  [kind |-> "none", pc |-> "start", browser |-> FALSE,
   ip |-> "ip1", email |-> "nobody", password |-> "wrong", rememberMe |-> FALSE,
   access |-> NoToken, refresh |-> NoToken, bearer |-> NoToken,
   user |-> NoUser, payload |-> NoToken, ttl |-> 0, count |-> 0,
   status |-> 0, code |-> "", setAccess |-> NoToken, setRefresh |-> NoToken,
   cleared |-> FALSE, identity |-> "none", newSid |-> 0, flag |-> {}]

InFlight == BagToSet(reqs)

NumReqs == BagCardinality(reqs)

Put(q) == reqs (+) SetToBag({q})

Swap(q, q2) == (reqs (-) SetToBag({q})) (+) SetToBag({q2})

Drop(q) == reqs (-) SetToBag({q})

\* An answered request: the handler's locals and the request's cookies and
\* headers are gone, the response and what the request was about remain.
Answered(q) ==
  [q EXCEPT !.pc = "done", !.access = NoToken, !.refresh = NoToken,
            !.bearer = NoToken, !.user = NoUser, !.ttl = 0, !.count = 0]

\* A thrown AppError, answered by errorHandler with its status and code
Fail(q, s, c) == [Answered(q) EXCEPT !.status = s, !.code = c]

\* clearAuthCookies(res) followed by a thrown AppError
FailClear(q, s, c) ==
  [Answered(q) EXCEPT !.status = s, !.code = c, !.cleared = TRUE]

\* res.json({ success: true, ... }), or next() in a middleware
Succeed(q) == [Answered(q) EXCEPT !.status = 200]


\* ------------------------------------------------------------------------
\* Initial state: every account active with a clean counter, empty Redis
\* ------------------------------------------------------------------------
NoBirth == [uid |-> "none", at |-> -1]

NoHist ==
  [rotated |-> {}, loggedOut |-> {},
   lockWrites |-> 0,
   streakAll |-> 0, streakEval |-> 0, lastWrongAt |-> 0, lastEvalAt |-> 0,
   winStart |-> -1, winCount |-> 0, winAllowed |-> 0, reset |-> {}]

InitStores ==
  /\ now = 0
  /\ users = [u \in UserIds |->
               [isActive |-> TRUE, failedLoginAttempts |-> 0, lockedUntil |-> Null]]
  /\ session = [s \in Sids |-> NoSession]
  /\ blacklist = [s \in Sids |-> Null]
  /\ ratelimit = [k \in Ips \X Emails |-> NoRate]
  /\ authLimit = [ip \in Ips |-> NoRate]
  /\ client = [pc |-> "idle", depth |-> 0, refreshes |-> 0, retries |-> 0,
               redirects |-> 0]
  /\ shop = [quantity |-> InitialStock, orders |-> <<>>, calls |-> {}]
  /\ nextSid = 1
  /\ born = [s \in Sids |-> NoBirth]
  /\ parent = [s \in Sids |-> 0]
  /\ jar = [access |-> NoToken, refresh |-> NoToken]
  /\ hist = NoHist

Init == InitStores /\ reqs = EmptyBag

\* The history follows the rate-limit window of one login key: the window
\* opens with the first checkRateLimit call made while none is open and
\* closes LoginRateWindow after that call has returned.
WatchedKey == <<"ip1", "u1">>

WindowOpen(t) ==
  /\ hist.winCount > 0
  /\ hist.winStart >= 0 => t < hist.winStart + LoginRateWindow

\* The clock advances, and Redis drops the keys whose time to live is over.
Pass(d, max) ==
  /\ now + d <= max
  /\ now' = now + d
  /\ session' = [s \in Sids |->
                   IF session[s].exp # Null /\ session[s].exp <= now + d
                   THEN NoSession ELSE session[s]]
  /\ blacklist' = [s \in Sids |->
                     IF blacklist[s] # Null /\ blacklist[s] <= now + d
                     THEN Null ELSE blacklist[s]]
  /\ ratelimit' = [k \in Ips \X Emails |->
                     IF ratelimit[k].exp > 0 /\ ratelimit[k].exp <= now + d
                     THEN NoRate ELSE ratelimit[k]]
  /\ authLimit' = [ip \in Ips |->
                     IF authLimit[ip].exp > 0 /\ authLimit[ip].exp <= now + d
                     THEN NoRate ELSE authLimit[ip]]
  /\ hist' = IF WindowOpen(now + d) THEN hist
             ELSE [hist EXCEPT !.winStart = -1, !.winCount = 0, !.winAllowed = 0]
  /\ UNCHANGED <<users, client, shop, nextSid, born, parent, jar, reqs>>

TickTo(max) == Pass(1, max)

Tick == TickTo(MaxTime)

\* ------------------------------------------------------------------------
\* login (auth.controller)
\* ------------------------------------------------------------------------
Locked(u) == users[u].lockedUntil # Null /\ users[u].lockedUntil > now

\* A lockout whose expiry has passed is still stored on the account
ExpiredLock(u) == users[u].lockedUntil # Null /\ users[u].lockedUntil <= now

\* A login request arrives at the handler.  The per-address express-rate-limit
\* mounted in front of /auth (server.ts) only turns requests away before they
\* get here; the requests below are those it lets through.
StartLogin(ip, email, password, rememberMe, browser) ==
  /\ ratelimit[<<ip, email>>].count < MaxRateCount
  /\ reqs' = Put([BaseReq EXCEPT !.kind = "login", !.pc = "rateLimit",
                    !.browser = browser, !.ip = ip, !.email = email,
                    !.password = password, !.rememberMe = rememberMe,
                    !.flag = IF email \in UserIds /\ ExpiredLock(email)
                             THEN {"afterExpiry"} ELSE {}])
  /\ UNCHANGED <<now, users, session, blacklist, ratelimit, authLimit, client,
                 shop, nextSid, born, parent, jar, hist>>

rateLimitKeyPerIp(ip, email) == <<ip, "u1">>

\* const rateLimitKey = `login:${clientIp}:${email}`
rateLimitKey(ip, email) == <<ip, email>>

rateLimitAllowedStrict(count, maxAttempts) == count < maxAttempts

\* allowed: count <= maxAttempts
rateLimitAllowed(count, maxAttempts) == count <= maxAttempts

\* The account whose login gate the history variables follow
Target == "u1"

\* An answer given while the account is locked is marked as such.
Stamp(q2) ==
  IF q2.pc = "done" /\ q2.email \in UserIds /\ Locked(q2.email)
  THEN [q2 EXCEPT !.flag = @ \cup {"lockedAtAnswer"}]
  ELSE q2

\* The history counts a streak of wrong-password answers up to StreakCap, and
\* the writes that set a lockout expiry up to two.
StreakCap == maxLoginAttempts + 3

\* The history kept when a login request is answered.
LoginAnswered(q, q2) ==
  IF q.email = Target
  THEN LET wrong == q.password = "wrong"
           ok == q2.status = 200
           evaluated == q2.code = "INVALID_CREDENTIALS"
       IN [hist EXCEPT
             !.streakAll = IF ok THEN 0
                           ELSE IF wrong /\ @ < StreakCap THEN @ + 1 ELSE @,
             !.streakEval = IF ok THEN 0
                            ELSE IF wrong /\ evaluated /\ @ < StreakCap
                                 THEN @ + 1 ELSE @,
             !.lastWrongAt = IF wrong /\ ~ok THEN now ELSE @,
             !.lastEvalAt = IF wrong /\ evaluated THEN now ELSE @]
  ELSE hist

\* The gate after checkRateLimit returned: throw RATE_LIMITED or go on.
LoginGate(q, count) ==
  IF rateLimitAllowed(count, LoginRateMax)
  THEN [q EXCEPT !.pc = "find", !.count = 0, !.ttl = 0]
  ELSE Fail(q, 429, "RATE_LIMITED")

\* The history of a checkRateLimit call: its place in the window, in the
\* history and on the request.
Counted(h, k) ==
  IF k # WatchedKey THEN h
  ELSE IF WindowOpen(now) THEN [h EXCEPT !.winCount = @ + 1]
  ELSE [h EXCEPT !.winStart = -1, !.winCount = 1, !.winAllowed = 0]

\* The first call of the window returns: the window runs from here.
Opened(h, q) ==
  IF <<q.ip, q.email>> = WatchedKey /\ q.count = 1 /\ h.winStart < 0
  THEN [h EXCEPT !.winStart = now] ELSE h

Placed(q2, h, k) ==
  IF k # WatchedKey THEN q2
  ELSE [q2 EXCEPT !.flag = @ \cup {IF h.winCount <= LoginRateMax
                                   THEN "withinMax" ELSE "beyondMax"}]

\* The window history h joined to the rest of the history, with the value
\* checkRateLimit returns to request q counted.
WithWindow(base, h, q, q2) ==
  [base EXCEPT !.winStart = h.winStart, !.winCount = h.winCount,
               !.winAllowed = IF <<q.ip, q.email>> = WatchedKey /\ q2.pc = "find"
                              THEN h.winAllowed + 1 ELSE h.winAllowed]

\* INCR
redisIncrLost(count) == count

redisIncr(count) == count + 1

\* checkRateLimit, first await: MULTI { INCR key; TTL key } EXEC
LoginRateLimit(q) ==
  /\ q \in InFlight /\ q.kind = "login" /\ q.pc = "rateLimit"
  /\ LET k == rateLimitKey(q.ip, q.email)
         live == RateKeyLive(k)
         count == IF live THEN redisIncr(ratelimit[k].count) ELSE 1
         ttl == IF live /\ ratelimit[k].exp # -1 THEN ratelimit[k].exp - now ELSE -1
         h == Counted(hist, k)
         qa == Placed(q, h, k)
         q2 == IF ttl = -1 THEN [qa EXCEPT !.pc = "expire", !.count = count, !.ttl = ttl]
               ELSE LoginGate(qa, count)
     IN /\ ratelimit' = [ratelimit EXCEPT ![k] =
                           [count |-> count, exp |-> IF live THEN @.exp ELSE -1]]
        /\ reqs' = Swap(q, Stamp(q2))
        /\ hist' = WithWindow(IF q2.pc = "done" THEN LoginAnswered(q, q2) ELSE hist,
                              h, q, q2)
  /\ UNCHANGED <<now, users, session, blacklist, authLimit, client, shop,
                 nextSid, born, parent, jar>>

\* checkRateLimit, second await: if (ttl === -1) redis.expire(key, window)
LoginExpire(q) ==
  /\ q \in InFlight /\ q.kind = "login" /\ q.pc = "expire"
  /\ LET k == rateLimitKey(q.ip, q.email)
         q2 == LoginGate(q, q.count)
     IN /\ ratelimit' = IF RateKeyLive(k)
                        THEN [ratelimit EXCEPT ![k].exp = now + LoginRateWindow]
                        ELSE ratelimit
        /\ reqs' = Swap(q, Stamp(q2))
        /\ hist' = WithWindow(IF q2.pc = "done" THEN LoginAnswered(q, q2) ELSE hist,
                              Opened(hist, q), q, q2)
  /\ UNCHANGED <<now, users, session, blacklist, authLimit, client, shop,
                 nextSid, born, parent, jar>>

\* prisma.user.findUnique({ where: { email } })
findUserByEmail(email) ==
  IF email \in UserIds
  THEN [found |-> TRUE, isActive |-> users[email].isActive,
        failedLoginAttempts |-> users[email].failedLoginAttempts,
        lockedUntil |-> users[email].lockedUntil]
  ELSE NoUser

userIsLockedInclusive(user, t) == user.lockedUntil # Null /\ user.lockedUntil >= t

\* user.lockedUntil && user.lockedUntil > new Date()
userIsLocked(user, t) == user.lockedUntil # Null /\ user.lockedUntil > t

\* findUnique, then the checks up to the next write: unknown email, lock,
\* active flag, bcrypt.compare.
LoginFind(q) ==
  /\ q \in InFlight /\ q.kind = "login" /\ q.pc = "find"
  /\ LET user == findUserByEmail(q.email)
         qa == [q EXCEPT !.user = user]
         q2 == IF ~user.found THEN Fail(qa, 401, "INVALID_CREDENTIALS")
               ELSE IF userIsLocked(user, now) THEN Fail(qa, 403, "ACCOUNT_LOCKED")
               ELSE IF ~user.isActive THEN Fail(qa, 403, "ACCOUNT_DEACTIVATED")
               ELSE IF ~bcryptCompare(q.password, passwordHash(q.email))
                    THEN [q EXCEPT !.user = user, !.pc = "failUpdate"]
               ELSE IF user.failedLoginAttempts > 0
                    THEN [q EXCEPT !.user = user, !.pc = "clear"]
               ELSE [q EXCEPT !.user = user, !.pc = "setex"]
     IN /\ reqs' = Swap(q, Stamp(q2))
        /\ hist' = IF q2.pc = "done" THEN LoginAnswered(q, q2) ELSE hist
  /\ UNCHANGED <<now, users, session, blacklist, ratelimit, authLimit, client,
                 shop, nextSid, born, parent, jar>>

shouldLockAbove(failedAttempts) == failedAttempts > maxLoginAttempts

\* failedAttempts >= passwordConfig.maxLoginAttempts
shouldLock(failedAttempts) == failedAttempts >= maxLoginAttempts

\* Wrong password: prisma.user.update with the counter read earlier plus one
LoginFailUpdate(q) ==
  /\ q \in InFlight /\ q.kind = "login" /\ q.pc = "failUpdate"
  /\ LET failedAttempts == q.user.failedLoginAttempts + 1
         lock == shouldLock(failedAttempts)
         q2 == Fail(q, 401, "INVALID_CREDENTIALS")
     IN /\ users' = [users EXCEPT ![q.email] =
                       [@ EXCEPT !.failedLoginAttempts = failedAttempts,
                                 !.lockedUntil = IF lock THEN now + lockoutDuration
                                                 ELSE Null]]
        /\ reqs' = Swap(q, Stamp(q2))
        /\ hist' = [LoginAnswered(q, q2) EXCEPT
                      !.lockWrites = IF lock /\ @ < 2 THEN @ + 1 ELSE @]
  /\ UNCHANGED <<now, session, blacklist, ratelimit, authLimit, client, shop,
                 nextSid, born, parent, jar>>

\* Right password after earlier failures: counter and lock are cleared
LoginClear(q) ==
  /\ q \in InFlight /\ q.kind = "login" /\ q.pc = "clear"
  /\ users' = [users EXCEPT ![q.email] =
                 [@ EXCEPT !.failedLoginAttempts = 0, !.lockedUntil = Null]]
  /\ reqs' = Swap(q, [q EXCEPT !.pc = "setex"])
  /\ UNCHANGED <<now, session, blacklist, ratelimit, authLimit, client, shop,
                 nextSid, born, parent, jar, hist>>

\* rememberMe ? 30 days : 24 hours
loginSessionTtl(rememberMe) ==
  IF rememberMe THEN SessionTtlRemember ELSE SessionTtlDefault

\* randomUUID, token generation, redis.setex(`session:${sessionId}`),
\* setAuthCookies, lastLoginAt update and the 200 response
LoginSetex(q) ==
  /\ q \in InFlight /\ q.kind = "login" /\ q.pc = "setex"
  /\ nextSid <= MaxSid
  /\ LET sid == nextSid
         q2 == [Succeed(q) EXCEPT !.newSid = sid,
                  !.setAccess = generateAccessToken(q.email, sid, now),
                  !.setRefresh = generateRefreshToken(q.email, sid, now)]
     IN /\ session' = [session EXCEPT ![sid] =
                         [uid |-> q.email, exp |-> now + loginSessionTtl(q.rememberMe)]]
        /\ nextSid' = nextSid + 1
        /\ born' = [born EXCEPT ![sid] = [uid |-> q.email, at |-> now]]
        /\ reqs' = Swap(q, Stamp(q2))
        /\ hist' = LoginAnswered(q, q2)
  /\ UNCHANGED <<now, users, blacklist, ratelimit, authLimit, client, shop,
                 parent, jar>>


\* ------------------------------------------------------------------------
\* Response delivery: the client receives the answer; a browser applies the
\* Set-Cookie headers (setAuthCookies / clearAuthCookies) to its jar.
\* ------------------------------------------------------------------------
Deliver(q) ==
  /\ q \in InFlight /\ q.pc = "done"
  /\ reqs' = Drop(q)
  /\ jar' = IF ~q.browser THEN jar
            ELSE IF q.setAccess # NoToken
                 THEN [access |-> q.setAccess, refresh |-> q.setRefresh]
            ELSE IF q.cleared THEN [access |-> NoToken, refresh |-> NoToken]
            ELSE jar
  /\ UNCHANGED <<now, users, session, blacklist, ratelimit, authLimit, client,
                 shop, nextSid, born, parent, hist>>

\* ------------------------------------------------------------------------
\* refreshToken (auth.controller)
\* ------------------------------------------------------------------------
\* A refresh request arrives with the cookie the client sends.
\* What the properties note about the token a request presents when it is
\* verified as a token of the given kind
PresentedFlags(tok, kind) ==
  (IF tok = NoToken THEN {"noToken"} ELSE {})
  \cup (IF tok # NoToken /\ tok.kind # kind THEN {"badSignature"} ELSE {})
  \cup (IF tok.exp <= now THEN {"expired"} ELSE {})

StartRefresh(browser, tok) ==
  /\ LET sent == IF browser
                 THEN CookieSent(jar.refresh, cookieConfigRefreshPath, PathRefresh)
                 ELSE tok
     IN reqs' = Put([BaseReq EXCEPT !.kind = "refresh", !.pc = "get",
                       !.browser = browser, !.refresh = sent,
                       !.flag = IF sent.kind = "refresh" /\ sent.sid \in hist.rotated
                                THEN {"reuse"} ELSE {}])
  /\ UNCHANGED <<now, users, session, blacklist, ratelimit, authLimit, client,
                 shop, nextSid, born, parent, jar, hist>>

\* cookie lookup, verifyRefreshToken, redis.get(`session:${payload.sessionId}`)
RefreshGet(q) ==
  /\ q \in InFlight /\ q.kind = "refresh" /\ q.pc = "get"
  /\ LET token == q.refresh
         qf == [q EXCEPT !.flag = @ \cup PresentedFlags(token, "refresh")]
         q2 == IF token = NoToken THEN Fail(qf, 401, "NO_REFRESH_TOKEN")
               ELSE IF verifyRefreshToken(token, now) # "ok"
                    THEN Fail(qf, 500, "INTERNAL_ERROR")
               ELSE IF redisGetSession(token.sid) = NoSession
                    THEN FailClear(qf, 401, "SESSION_EXPIRED")
               ELSE [qf EXCEPT !.pc = "findUser", !.payload = token]
     IN reqs' = Swap(q, q2)
  /\ UNCHANGED <<now, users, session, blacklist, ratelimit, authLimit, client,
                 shop, nextSid, born, parent, jar, hist>>

\* prisma.user.findUnique({ where: { id } })
findUserById(uid) ==
  IF uid \in UserIds
  THEN [found |-> TRUE, isActive |-> users[uid].isActive,
        failedLoginAttempts |-> users[uid].failedLoginAttempts,
        lockedUntil |-> users[uid].lockedUntil]
  ELSE NoUser

RefreshFindUser(q) ==
  /\ q \in InFlight /\ q.kind = "refresh" /\ q.pc = "findUser"
  /\ LET user == findUserById(q.payload.uid)
         q2 == IF ~user.found \/ ~user.isActive
               THEN FailClear(q, 401, "USER_INVALID")
               ELSE [q EXCEPT !.pc = "del"]
     IN reqs' = Swap(q, q2)
  /\ UNCHANGED <<now, users, session, blacklist, ratelimit, authLimit, client,
                 shop, nextSid, born, parent, jar, hist>>

\* A refresh that leaves the old session in the registry
refreshKeepOld(sess, sid) == sess

\* What refresh does to the registry for the old session id:
\* redis.del(`session:${payload.sessionId}`)
refreshInvalidateOld(sess, sid) == [sess EXCEPT ![sid] = NoSession]

RefreshDel(q) ==
  /\ q \in InFlight /\ q.kind = "refresh" /\ q.pc = "del"
  /\ session' = refreshInvalidateOld(session, q.payload.sid)
  /\ reqs' = Swap(q, [q EXCEPT !.pc = "setex"])
  /\ UNCHANGED <<now, users, blacklist, ratelimit, authLimit, client, shop,
                 nextSid, born, parent, jar, hist>>

\* redis.setex(`session:${newSessionId}`, 7 days), setAuthCookies, 200
RefreshSetex(q) ==
  /\ q \in InFlight /\ q.kind = "refresh" /\ q.pc = "setex"
  /\ nextSid <= MaxSid
  /\ LET sid == nextSid
         uid == q.payload.uid
     IN /\ session' = [session EXCEPT ![sid] =
                         [uid |-> uid, exp |-> now + SessionTtlRefresh]]
        /\ parent' = [parent EXCEPT ![sid] = q.payload.sid]
        /\ born' = [born EXCEPT ![sid] = [uid |-> uid, at |-> now]]
        /\ reqs' = Swap(q, [Succeed(q) EXCEPT !.newSid = sid,
                              !.setAccess = generateAccessToken(uid, sid, now),
                              !.setRefresh = generateRefreshToken(uid, sid, now)])
        /\ hist' = [hist EXCEPT !.rotated = @ \cup {q.payload.sid}]
  /\ nextSid' = nextSid + 1
  /\ UNCHANGED <<now, users, blacklist, ratelimit, authLimit, client, shop,
                 jar>>


\* ------------------------------------------------------------------------
\* logout (auth.controller)
\* ------------------------------------------------------------------------
\* A logout request arrives.  A browser sends the cookies whose path matches
\* the logout endpoint.
StartLogout(browser, tok) ==
  /\ LET sentR == IF browser
                  THEN CookieSent(jar.refresh, cookieConfigRefreshPath, PathLogout)
                  ELSE tok
         sentA == IF browser
                  THEN CookieSent(jar.access, cookieConfigAccessPath, PathLogout)
                  ELSE NoToken
         holder == /\ browser
                   /\ jar.access # NoToken /\ jar.refresh # NoToken
                   /\ jar.access.sid = jar.refresh.sid
                   /\ parent[jar.access.sid] = 0
     IN reqs' = Put([BaseReq EXCEPT !.kind = "logout", !.pc = "blacklist",
                       !.browser = browser, !.refresh = sentR, !.access = sentA,
                       !.flag = (IF holder THEN {"holder"} ELSE {})
                                \cup (IF /\ sentR.kind = "refresh"
                                         /\ BlacklistKeyLive(sentR.sid)
                                         /\ redisGetSession(sentR.sid) = NoSession
                                      THEN {"again"} ELSE {})])
  /\ UNCHANGED <<now, users, session, blacklist, ratelimit, authLimit, client,
                 shop, nextSid, born, parent, jar, hist>>

\* The history kept when a logout is answered: the session of the cookie
\* holder that asked for it.
LogoutAnswered(q) ==
  IF "holder" \in q.flag
  THEN [hist EXCEPT !.loggedOut = @ \cup {q.access.sid}]
  ELSE hist

blacklistSessionShort(bl, sid, expiresIn) == [bl EXCEPT ![sid] = now + AccessExpiry]

blacklistSessionFlip(bl, sid, expiresIn) ==
  [bl EXCEPT ![sid] = IF @ # Null THEN Null ELSE now + expiresIn]

\* blacklistSession: redis.setex(`blacklist:session:${sessionId}`, expiresIn)
blacklistSession(bl, sid, expiresIn) == [bl EXCEPT ![sid] = now + expiresIn]

\* cookie lookup; with a token that verifies, blacklistSession; otherwise
\* (no cookie, or the catch block) straight to clearAuthCookies and 200
LogoutBlacklist(q) ==
  /\ q \in InFlight /\ q.kind = "logout" /\ q.pc = "blacklist"
  /\ LET token == q.refresh
         revoke == token # NoToken /\ verifyRefreshToken(token, now) = "ok"
         q2 == IF revoke THEN [q EXCEPT !.pc = "del", !.payload = token]
               ELSE [Succeed(q) EXCEPT !.cleared = TRUE]
     IN /\ blacklist' = IF revoke
                        THEN blacklistSession(blacklist, token.sid, BlacklistTtl)
                        ELSE blacklist
        /\ reqs' = Swap(q, q2)
        /\ hist' = IF revoke THEN hist ELSE LogoutAnswered(q)
  /\ UNCHANGED <<now, users, session, ratelimit, authLimit, client, shop,
                 nextSid, born, parent, jar>>

\* redis.del(`session:${payload.sessionId}`), clearAuthCookies, 200
LogoutDel(q) ==
  /\ q \in InFlight /\ q.kind = "logout" /\ q.pc = "del"
  /\ session' = [session EXCEPT ![q.payload.sid] = NoSession]
  /\ reqs' = Swap(q, [Succeed(q) EXCEPT !.cleared = TRUE])
  /\ hist' = LogoutAnswered(q)
  /\ UNCHANGED <<now, users, blacklist, ratelimit, authLimit, client, shop,
                 nextSid, born, parent, jar>>

\* ------------------------------------------------------------------------
\* authenticate and optionalAuth (auth.middleware)
\* ------------------------------------------------------------------------
\* What the properties note about a request when it arrives
ArrivalFlags(tok) ==
  IF tok.kind = "access"
  THEN (IF tok.sid \in hist.loggedOut THEN {"afterLogout"} ELSE {})
       \cup (IF tok.sid \in hist.rotated THEN {"afterRotation"} ELSE {})
  ELSE {}

\* What the properties note about the stores when a verified token's session
\* is looked up
CheckFlags(tok) ==
  IF tok.sid \in Sids
  THEN (IF BlacklistKeyLive(tok.sid) THEN {"blacklistedAtCheck"} ELSE {})
       \cup (IF session[tok.sid].exp = Null \/ session[tok.sid].exp <= now
             THEN {"sessionGoneAtCheck"} ELSE {})
  ELSE {}

\* A request to a protected route arrives: a browser sends its access cookie,
\* another client a cookie or an Authorization: Bearer header of its choice.
StartAuth(kind, browser, viaBearer, tok) ==
  /\ kind \in {"auth", "optauth"}
  /\ LET sentA == IF browser
                  THEN CookieSent(jar.access, cookieConfigAccessPath, PathMe)
                  ELSE IF viaBearer THEN NoToken ELSE tok
         sentR == IF browser
                  THEN CookieSent(jar.refresh, cookieConfigRefreshPath, PathMe)
                  ELSE NoToken
         sentB == IF ~browser /\ viaBearer THEN tok ELSE NoToken
     IN reqs' = Put([BaseReq EXCEPT !.kind = kind, !.pc = "verify",
                       !.browser = browser, !.access = sentA, !.refresh = sentR,
                       !.bearer = sentB,
                       !.flag = ArrivalFlags(IF sentA # NoToken THEN sentA ELSE sentB)])
  /\ UNCHANGED <<now, users, session, blacklist, ratelimit, authLimit, client,
                 shop, nextSid, born, parent, jar, hist>>

\* authenticate up to its first await: token from the cookie or the bearer
\* header, verifyAccessToken, isSessionBlacklisted
Authenticate(q) ==
  /\ q \in InFlight /\ q.kind = "auth" /\ q.pc = "verify"
  /\ LET token == IF q.access # NoToken THEN q.access ELSE q.bearer
         v == verifyAccessToken(token, now)
         qf == [q EXCEPT !.flag = @ \cup (IF v = "ok" THEN CheckFlags(token) ELSE {})
                                    \cup PresentedFlags(token, "access")]
         q2 == IF token = NoToken THEN Fail(qf, 401, "UNAUTHORIZED")
               ELSE IF v = "TokenExpiredError" THEN FailClear(qf, 401, "TOKEN_EXPIRED")
               ELSE IF v = "JsonWebTokenError" THEN FailClear(qf, 401, "INVALID_TOKEN")
               ELSE IF isSessionBlacklisted(token.sid)
                    THEN FailClear(qf, 401, "SESSION_EXPIRED")
               ELSE [qf EXCEPT !.pc = "findUser", !.payload = token]
     IN reqs' = Swap(q, q2)
  /\ UNCHANGED <<now, users, session, blacklist, ratelimit, authLimit, client,
                 shop, nextSid, born, parent, jar, hist>>

AuthenticateUserUnchecked(q) ==
  /\ q \in InFlight /\ q.kind = "auth" /\ q.pc = "findUser"
  /\ LET user == findUserById(q.payload.uid)
         q2 == IF ~user.found THEN Fail(q, 401, "USER_NOT_FOUND")
               ELSE [Succeed(q) EXCEPT !.identity = q.payload.uid]
     IN reqs' = Swap(q, q2)
  /\ UNCHANGED <<now, users, session, blacklist, ratelimit, authLimit, client,
                 shop, nextSid, born, parent, jar, hist>>

\* authenticate after prisma.user.findUnique: the account checks, req.user
AuthenticateUser(q) ==
  /\ q \in InFlight /\ q.kind = "auth" /\ q.pc = "findUser"
  /\ LET user == findUserById(q.payload.uid)
         q2 == IF ~user.found THEN Fail(q, 401, "USER_NOT_FOUND")
               ELSE IF ~user.isActive THEN Fail(q, 403, "ACCOUNT_DEACTIVATED")
               ELSE IF userIsLocked(user, now) THEN Fail(q, 403, "ACCOUNT_LOCKED")
               ELSE [Succeed(q) EXCEPT !.identity = q.payload.uid]
     IN reqs' = Swap(q, q2)
  /\ UNCHANGED <<now, users, session, blacklist, ratelimit, authLimit, client,
                 shop, nextSid, born, parent, jar, hist>>

\* optionalAuth up to its first await: cookie only, failures are swallowed
OptionalAuth(q) ==
  /\ q \in InFlight /\ q.kind = "optauth" /\ q.pc = "verify"
  /\ LET token == q.access
         v == verifyAccessToken(token, now)
         qf == [q EXCEPT !.flag = @ \cup (IF v = "ok" THEN CheckFlags(token) ELSE {})
                                    \cup (IF token.exp <= now THEN {"expired"} ELSE {})]
         q2 == IF token = NoToken \/ v # "ok"
               THEN Succeed(qf)
               ELSE IF isSessionBlacklisted(token.sid)
                    THEN [Succeed(qf) EXCEPT !.cleared = TRUE]
               ELSE [qf EXCEPT !.pc = "findUser", !.payload = token]
     IN reqs' = Swap(q, q2)
  /\ UNCHANGED <<now, users, session, blacklist, ratelimit, authLimit, client,
                 shop, nextSid, born, parent, jar, hist>>

\* optionalAuth after prisma.user.findUnique: if (user?.isActive) req.user
OptionalAuthUser(q) ==
  /\ q \in InFlight /\ q.kind = "optauth" /\ q.pc = "findUser"
  /\ LET user == findUserById(q.payload.uid)
     IN reqs' = Swap(q, [Succeed(q) EXCEPT
                           !.identity = IF user.found /\ user.isActive
                                        THEN q.payload.uid ELSE "none"])
  /\ UNCHANGED <<now, users, session, blacklist, ratelimit, authLimit, client,
                 shop, nextSid, born, parent, jar, hist>>


\* ------------------------------------------------------------------------
\* Spec: the session lifecycle.  One account logs in with its password from
\* a browser or from another client; any client may present any token that
\* has left the server.
\* ------------------------------------------------------------------------
Idle == reqs = EmptyBag

\* Every token that a response has carried, and no token at all
Issued ==
  UNION {{generateAccessToken(born[s].uid, s, born[s].at),
          generateRefreshToken(born[s].uid, s, born[s].at)} :
         s \in {x \in Sids : born[x] # NoBirth}}

Presentable == Issued \cup {NoToken}

Login ==
  \E q \in InFlight :
    \/ LoginRateLimit(q)
    \/ LoginExpire(q)
    \/ LoginFind(q)
    \/ nextSid <= MaxSessions /\ LoginSetex(q)

Refresh ==
  \E q \in InFlight :
    \/ RefreshGet(q)
    \/ RefreshFindUser(q)
    \/ RefreshDel(q)
    \/ nextSid <= MaxSessions /\ RefreshSetex(q)

Logout == \E q \in InFlight : LogoutBlacklist(q) \/ LogoutDel(q)

Auth ==
  \E q \in InFlight :
    Authenticate(q) \/ AuthenticateUser(q) \/ OptionalAuth(q) \/ OptionalAuthUser(q)

Arrive ==
  /\ Idle
  /\ \/ StartLogin("ip1", Target, "right", FALSE, TRUE)
     \/ StartRefresh(TRUE, NoToken)
     \/ \E tok \in Presentable : StartRefresh(FALSE, tok)
     \/ StartLogout(TRUE, NoToken)
     \/ \E tok \in Presentable : StartLogout(FALSE, tok)
     \/ \E kind \in {"auth", "optauth"} : StartAuth(kind, TRUE, FALSE, NoToken)
     \/ \E kind \in {"auth", "optauth"}, tok \in Presentable :
          StartAuth(kind, FALSE, FALSE, tok)
     \/ \E tok \in Presentable : StartAuth("auth", FALSE, TRUE, tok)

Next ==
  \/ Tick
  \/ Arrive
  \/ Login
  \/ Refresh
  \/ Logout
  \/ Auth
  \/ \E q \in InFlight : Deliver(q)

Spec == Init /\ [][Next]_vars


\* ------------------------------------------------------------------------
\* SpecRace: after one login, clients that hold the refresh tokens issued so
\* far send refresh and logout requests that overlap in time.
\* ------------------------------------------------------------------------
Room == NumReqs < MaxInflight

FirstLogin ==
  \/ Idle /\ nextSid = 1 /\ StartLogin("ip1", Target, "right", FALSE, FALSE)
  \/ \E q \in InFlight :
       LoginRateLimit(q) \/ LoginExpire(q) \/ LoginFind(q) \/ LoginSetex(q)

RefreshTokens == {tok \in Issued : tok.kind = "refresh"}

AccessTokens == {tok \in Issued : tok.kind = "access"}

RaceArrive ==
  /\ Room
  /\ \E tok \in RefreshTokens : StartRefresh(FALSE, tok) \/ StartLogout(FALSE, tok)

RaceRefresh ==
  \E q \in InFlight :
    RefreshGet(q) \/ RefreshFindUser(q) \/ RefreshDel(q) \/ RefreshSetex(q)

NextRace ==
  \/ FirstLogin
  \/ RaceArrive
  \/ RaceRefresh
  \/ Logout
  \/ \E q \in InFlight : Deliver(q)

SpecRace == Init /\ [][NextRace]_vars

\* ------------------------------------------------------------------------
\* SpecGuard: after one login, logout requests overlap with requests to
\* routes behind authenticate and optionalAuth; the clock runs.
\* ------------------------------------------------------------------------
GuardArrive ==
  /\ Room
  /\ \/ \E tok \in RefreshTokens : StartLogout(FALSE, tok)
     \/ \E tok \in AccessTokens, kind \in {"auth", "optauth"} :
          StartAuth(kind, FALSE, FALSE, tok)
     \/ \E tok \in AccessTokens : StartAuth("auth", FALSE, TRUE, tok)

NextGuard ==
  \/ Tick
  \/ FirstLogin
  \/ GuardArrive
  \/ Logout
  \/ Auth
  \/ \E q \in InFlight : Deliver(q)

SpecGuard == Init /\ [][NextGuard]_vars

\* ------------------------------------------------------------------------
\* SpecLogin: login attempts against one account, from two addresses and
\* with either password, handled one after the other; the clock runs.
\* ------------------------------------------------------------------------
LoginSteps ==
  \E q \in InFlight :
    \/ LoginRateLimit(q)
    \/ LoginExpire(q)
    \/ LoginFind(q)
    \/ LoginFailUpdate(q)
    \/ LoginClear(q)
    \/ LoginSetex(q)

LoginArrive ==
  /\ Idle
  /\ \E ip \in Ips, pw \in Passwords : StartLogin(ip, Target, pw, FALSE, FALSE)

NextLogin ==
  \/ Tick
  \/ LoginArrive
  \/ LoginSteps
  \/ \E q \in InFlight : Deliver(q)

SpecLogin == Init /\ [][NextLogin]_vars

\* ------------------------------------------------------------------------
\* SpecExpiry: login attempts against one account from one address, handled
\* one after the other, with a clock that runs past the end of a lockout.
\* ------------------------------------------------------------------------
ExpiryArrive ==
  /\ Idle
  /\ \E pw \in Passwords : StartLogin("ip1", Target, pw, FALSE, FALSE)

ExpirySteps ==
  \E q \in InFlight :
    \/ LoginRateLimit(q)
    \/ LoginExpire(q)
    \/ LoginFind(q)
    \/ LoginFailUpdate(q)
    \/ LoginClear(q)
    \/ nextSid <= MaxSessions /\ LoginSetex(q)

NextExpiry ==
  \/ TickTo(MaxLoginTime)
  \/ ExpiryArrive
  \/ ExpirySteps
  \/ \E q \in InFlight : Deliver(q)

SpecExpiry == Init /\ [][NextExpiry]_vars

\* ------------------------------------------------------------------------
\* SpecBurst: a burst of login requests against one fresh account, from two
\* addresses and with either password; the handlers of up to MaxInflight of
\* them interleave at their awaits.  The burst is over before the clock moves.
\* ------------------------------------------------------------------------
RECURSIVE SumOver(_, _)
SumOver(f, S) ==
  IF S = {} THEN 0
  ELSE LET x == CHOOSE y \in S : TRUE IN f[x] + SumOver(f, S \ {x})

\* The requests of the burst so far: those the limiter has counted and those
\* that have not reached it yet.
Fired ==
  SumOver([ip \in Ips |-> ratelimit[<<ip, Target>>].count], Ips)
    + SumOver([q \in InFlight |-> IF q.pc = "rateLimit" THEN CopiesIn(q, reqs) ELSE 0],
              InFlight)

BurstArrive ==
  /\ Room
  /\ Fired < MaxBurst
  /\ \E ip \in Ips, pw \in Passwords : StartLogin(ip, Target, pw, FALSE, FALSE)

NextBurst ==
  \/ BurstArrive
  \/ LoginSteps
  \/ \E q \in InFlight : Deliver(q)

SpecBurst == Init /\ [][NextBurst]_vars

\* ------------------------------------------------------------------------
\* Properties of the session lifecycle
\* ------------------------------------------------------------------------
Answers(kind) == {q \in InFlight : q.kind = kind /\ q.pc = "done"}

NoTokensIssued(q) ==
  q.setAccess = NoToken /\ q.setRefresh = NoToken /\ q.newSid = 0

\* C1: a refresh request that presents an unexpired refresh token after a
\* refresh with that same token has completed successfully is answered
\* 401 SESSION_EXPIRED, carries no new tokens and creates no session.
C1_RotationSingleUse ==
  \A q \in InFlight :
    (q.kind = "refresh" /\ "reuse" \in q.flag /\ "expired" \notin q.flag)
      => /\ q.pc \in {"get", "done"}
         /\ q.pc = "done" => /\ q.status = 401 /\ q.code = "SESSION_EXPIRED"
                              /\ NoTokensIssued(q)

\* C1 witness: a reused, unexpired refresh token has been answered, while the
\* session rotated from it is live.
C1_Witness ==
  \E q \in Answers("refresh") :
    /\ "reuse" \in q.flag /\ "expired" \notin q.flag
    /\ \E s \in Sids : parent[s] # 0 /\ redisGetSession(s) # NoSession

\* C2: in every interleaving at most one session is ever derived from one
\* refresh token.
C2_AtMostOneUse ==
  \A s \in Sids : Cardinality({c \in Sids : parent[c] = s}) <= 1

\* C3: after a logout by the browser that holds the cookies issued at login,
\* the session id is blacklisted and a request with the still unexpired
\* access token is answered 401 SESSION_EXPIRED by authenticate.
C3_LogoutRevokes ==
  /\ \A s \in hist.loggedOut : BlacklistKeyLive(s)
  /\ \A q \in Answers("auth") :
       ("afterLogout" \in q.flag /\ "expired" \notin q.flag)
         => q.status = 401 /\ q.code = "SESSION_EXPIRED"

\* C4: after a successful refresh the old session id is blacklisted and gone
\* from the registry, and authenticate rejects the still unexpired access
\* token that was issued with the rotated refresh token.
C4_RefreshRevokesOld ==
  /\ \A s \in hist.rotated : BlacklistKeyLive(s) /\ redisGetSession(s) = NoSession
  /\ \A q \in Answers("auth") :
       ("afterRotation" \in q.flag /\ "expired" \notin q.flag)
         => q.status # 200 /\ q.identity = "none"

\* C5: authenticate attaches no identity to a request whose token names a
\* session that is not live in the Session Registry.
C5_SessionMustBeLive ==
  \A q \in InFlight :
    (q.kind = "auth" /\ "sessionGoneAtCheck" \in q.flag)
      => q.pc = "done" /\ q.status # 200 /\ q.identity = "none"

\* C6: a request whose token's session id is blacklisted when authenticate or
\* optionalAuth looks it up gets no identity and has its auth cookies
\* cleared; authenticate answers it 401 SESSION_EXPIRED.
C6_LedgerConsulted ==
  \A q \in InFlight :
    (q.kind \in {"auth", "optauth"} /\ "blacklistedAtCheck" \in q.flag)
      => /\ q.pc = "done" /\ q.identity = "none" /\ q.cleared
         /\ q.kind = "auth" => (q.status = 401 /\ q.code = "SESSION_EXPIRED")

\* C6 witness: both middlewares have met a blacklisted session.
C6_Witness ==
  /\ \E q \in Answers("auth") : "blacklistedAtCheck" \in q.flag
  /\ \E q \in Answers("optauth") : "blacklistedAtCheck" \in q.flag

\* ------------------------------------------------------------------------
\* Properties of the login gate
\* ------------------------------------------------------------------------
\* No handler is between its first and its last step
Quiet == \A q \in InFlight : q.pc = "done"

RightAnswersWhileLocked ==
  {q \in Answers("login") :
     q.email = Target /\ q.password = "right" /\ "lockedAtAnswer" \in q.flag}

C8_OneLockTransition ==
  (Idle /\ Fired > maxLoginAttempts /\ hist.streakAll = Fired)
    => /\ hist.lockWrites = 1
       /\ users[Target].failedLoginAttempts <= Fired

\* C9: when n <= maxLoginAttempts wrong-password requests against a fresh
\* account, all admitted by the limiter, have been answered, the
\* failed-attempt counter is n, and the account is locked if n has reached
\* maxLoginAttempts.
C9_NoLostUpdate ==
  (Idle /\ Fired <= maxLoginAttempts /\ hist.streakEval = Fired)
    => /\ users[Target].failedLoginAttempts = Fired
       /\ Fired = maxLoginAttempts => Locked(Target)

\* C10: while the account is locked no step of a login request changes the
\* failed-attempt counter or the lockout expiry, and none opens a session.
C10_LockedFrame ==
  [][Locked(Target) => (users'[Target] = users[Target] /\ nextSid' = nextSid)]_vars

\* ------------------------------------------------------------------------
\* Properties of the lockout expiry
\* ------------------------------------------------------------------------
\* C11: the failed-attempt update of a wrong-password attempt made after the
\* lockout expiry has passed leaves the counter at 1 and no lockout.
C11_FreshAfterExpiry ==
  [][(/\ ExpiredLock(Target)
      /\ \E q \in InFlight : q.kind = "login" /\ q.pc = "failUpdate"
      /\ users'[Target] # users[Target])
       => (/\ users'[Target].failedLoginAttempts = 1
           /\ users'[Target].lockedUntil = Null)]_vars

RightAnswersAfterExpiry ==
  {q \in Answers("login") :
     q.email = Target /\ q.password = "right" /\ "afterExpiry" \in q.flag}

\* The answer of a successful login: tokens in the cookies, the session stored
LoggedIn(q) ==
  /\ q.status = 200
  /\ q.newSid # 0
  /\ q.setAccess.kind = "access" /\ q.setAccess.sid = q.newSid
  /\ q.setRefresh.kind = "refresh" /\ q.setRefresh.sid = q.newSid
  /\ redisGetSession(q.newSid).uid = q.email

CleanCounter(u) ==
  users[u].failedLoginAttempts = 0 /\ users[u].lockedUntil = Null

C13_SuccessResets ==
  [][nextSid' # nextSid => CleanCounter(Target)']_vars

\* ------------------------------------------------------------------------
\* Properties of the rate limiter
\* ------------------------------------------------------------------------
WatchedLogins ==
  {q \in InFlight : q.kind = "login" /\ <<q.ip, q.email>> = WatchedKey}

\* C14: of the login attempts on one (address, email) key inside one window
\* the first LoginRateMax pass the rate limiter, and every later one is
\* answered 429 RATE_LIMITED without reaching the credential check, whatever
\* its password.
C14_FiveThenLimited ==
  \A q \in WatchedLogins :
    /\ "withinMax" \in q.flag => q.code # "RATE_LIMITED"
    /\ "beyondMax" \in q.flag
         => /\ q.pc \in {"expire", "done"}
            /\ q.pc = "done" => /\ q.status = 429 /\ q.code = "RATE_LIMITED"
                                 /\ NoTokensIssued(q)

\* C14 witness: in a window that is not the first, five attempts have passed
\* the limiter and a right-password attempt after them has been rejected.
C14_Witness ==
  /\ hist.winStart > 0 /\ hist.winCount > LoginRateMax /\ hist.winAllowed = LoginRateMax
  /\ \E q \in WatchedLogins :
       q.pc = "done" /\ "beyondMax" \in q.flag /\ q.password = "right"

\* ---- Concurrent calls on one rate-limit key, inside one window ----
\* Attempts from one address against one account overlap; the clock stands
\* still, so all of them fall in the window the first one opens.
CallsArrive ==
  /\ Room
  /\ Fired < MaxBurst
  /\ \E pw \in Passwords : StartLogin("ip1", Target, pw, FALSE, FALSE)

NextCalls ==
  \/ CallsArrive
  \/ LoginSteps
  \/ \E q \in InFlight : Deliver(q)

SpecCalls == Init /\ [][NextCalls]_vars

\* ---- The same calls with the clock running ----
\* Wrong-password attempts from one address against one account overlap
\* while the windows open and close.
WindowArrive ==
  /\ Room
  /\ StartLogin("ip1", Target, "wrong", FALSE, FALSE)

WindowSteps ==
  \E q \in InFlight :
    \/ LoginRateLimit(q)
    \/ LoginExpire(q)
    \/ LoginFind(q)
    \/ LoginFailUpdate(q)

NextWindow ==
  \/ TickTo(MaxTime)
  \/ WindowArrive
  \/ WindowSteps
  \/ \E q \in InFlight : Deliver(q)

SpecWindow == Init /\ [][NextWindow]_vars

Min(a, b) == IF a <= b THEN a ELSE b

\* Calls of checkRateLimit on the watched key that have incremented it and
\* not returned yet
PendingCalls == {q \in WatchedLogins : q.pc = "expire"}

\* C15: the calls of checkRateLimit on one key inside one window, however
\* they overlap, observe the counts 1..n, each once, and min(n, LoginRateMax)
\* of them return allowed.
C15_AtomicIncrement ==
  /\ hist.winCount > 0 => ratelimit[WatchedKey].count = hist.winCount
  /\ \A q \in PendingCalls :
       /\ q.count \in 1..hist.winCount
       /\ CopiesIn(q, reqs) = 1
       /\ \A r \in PendingCalls : r # q => r.count # q.count
  /\ (PendingCalls = {} /\ \A q \in WatchedLogins : q.pc # "rateLimit")
       => hist.winAllowed = Min(hist.winCount, LoginRateMax)

\* C15 witness: two calls on the key overlap, each with its own count.
C15_Witness ==
  \E q, r \in PendingCalls : q.count # r.count

\* ---- The limiter mounted in front of the authentication routes ----
\* rateLimitConfig.auth: max 5 hits per windowMs of 15 minutes
AuthRateMax == 5
AuthRateWindow == 2

\* keyGenerator of express-rate-limit: the request's address only
authLimitKey(ip, email) == ip

\* What the arrival of a login attempt finds: nobody has tried the account
\* in the current windows, and the same address has used up the attempts of
\* the handler's limiter against another account.
ThrottleFlags(ip, email) ==
  (IF \A a \in Ips : ~RateKeyLive(<<a, email>>) THEN {"freshPair"} ELSE {})
  \cup
  (IF \E e \in Emails \ {email} :
        /\ RateKeyLive(<<ip, e>>)
        /\ ratelimit[<<ip, e>>].count >= LoginRateMax
   THEN {"otherExhausted"} ELSE {})

\* app.use(`${API_PREFIX}/auth`, rateLimit(rateLimitConfig.auth), authRoutes):
\* the middleware counts the hit of the address in its in-memory store and
\* answers 429 with rateLimitConfig.auth.message beyond max; otherwise the
\* request goes on to the login handler.  The store's window of an address
\* runs for windowMs from its first hit.
ArriveLogin(ip, email, password) ==
  /\ authLimit[ip].count < MaxRateCount
  /\ ratelimit[<<ip, email>>].count < MaxRateCount
  /\ LET k == authLimitKey(ip, email)
         live == authLimit[k].count > 0 /\ authLimit[k].exp > now
         hits == IF live THEN authLimit[k].count + 1 ELSE 1
         q == [BaseReq EXCEPT !.kind = "login", !.ip = ip, !.email = email,
                              !.password = password,
                              !.flag = ThrottleFlags(ip, email)]
     IN /\ authLimit' = [authLimit EXCEPT ![k] =
                           [count |-> hits,
                            exp |-> IF live THEN @.exp ELSE now + AuthRateWindow]]
        /\ reqs' = Put(IF hits <= AuthRateMax
                       THEN [q EXCEPT !.pc = "rateLimit"]
                       ELSE Answered([q EXCEPT !.status = 429,
                                               !.flag = @ \cup {"turnedAway"}]))
  /\ UNCHANGED <<now, users, session, blacklist, ratelimit, client, shop,
                 nextSid, born, parent, jar, hist>>

\* Wrong-password attempts come in through the router, one after the other,
\* from one address against either account.
ThrottleArrive ==
  /\ Idle
  /\ \E email \in UserIds : ArriveLogin("ip1", email, "wrong")

NextThrottle ==
  \/ TickTo(MaxTime)
  \/ ThrottleArrive
  \/ WindowSteps
  \/ \E q \in InFlight : Deliver(q)

SpecThrottle == Init /\ [][NextThrottle]_vars

\* ---- An account changes while its tokens are out ----
\* An administrator deactivates an account: isActive = false on its row.
Deactivate(u) ==
  /\ users[u].isActive
  /\ users' = [users EXCEPT ![u].isActive = FALSE]
  /\ UNCHANGED <<now, session, blacklist, ratelimit, authLimit, client, shop,
                 nextSid, born, parent, jar, reqs, hist>>

\* After the account's login, requests with its access token arrive at a
\* route behind authenticate and wrong-password attempts from another
\* address run against the account, one being handled at a time.
AccountArrive ==
  /\ Room
  /\ \A q \in InFlight : q.pc = "done"
  /\ \/ \E tok \in AccessTokens : StartAuth("auth", FALSE, FALSE, tok)
     \/ StartLogin("ip2", Target, "wrong", FALSE, FALSE)

AccountSteps ==
  \E q \in InFlight :
    \/ Authenticate(q)
    \/ AuthenticateUser(q)
    \/ LoginFailUpdate(q)

NextAccount ==
  \/ Tick
  \/ FirstLogin
  \/ AccountArrive
  \/ AccountSteps
  \/ Deactivate(Target)
  \/ \E q \in InFlight : Deliver(q)

SpecAccount == Init /\ [][NextAccount]_vars

\* ---- Tokens of the client's choice at authenticate ----
\* Tokens that were not signed with the access secret, one that the clock
\* passes and one that it does not
ForgedTokens ==
  {[kind |-> "forged", uid |-> Target, sid |-> 1, exp |-> e] : e \in {1, MaxTime + 1}}

\* After one login, requests arrive at a route behind authenticate with an
\* issued access token, a forged token or none, in the cookie or in the
\* Authorization header, and the session may be logged out.
VerifyArrive ==
  /\ Room
  /\ \/ \E tok \in AccessTokens \cup ForgedTokens \cup {NoToken}, viaBearer \in BOOLEAN :
          StartAuth("auth", FALSE, viaBearer, tok)
     \/ \E tok \in RefreshTokens : StartLogout(FALSE, tok)

VerifySteps ==
  \E q \in InFlight : Authenticate(q) \/ AuthenticateUser(q)

NextVerify ==
  \/ Tick
  \/ FirstLogin
  \/ VerifyArrive
  \/ VerifySteps
  \/ Logout
  \/ \E q \in InFlight : Deliver(q)

SpecVerify == Init /\ [][NextVerify]_vars

\* ---- Redis does not answer ----
\* ioredis rejects a command after maxRetriesPerRequest failed retries; the
\* await throws.
AuthenticateLookupFailsOpen(q) ==
  /\ q \in InFlight /\ q.kind = "auth" /\ q.pc = "verify"
  /\ LET token == IF q.access # NoToken THEN q.access ELSE q.bearer
     IN /\ token # NoToken /\ verifyAccessToken(token, now) = "ok"
        /\ reqs' = Swap(q, [q EXCEPT !.pc = "findUser", !.payload = token,
                                     !.flag = @ \cup {"storeFailed"}])
  /\ UNCHANGED <<now, users, session, blacklist, ratelimit, authLimit, client,
                 shop, nextSid, born, parent, jar, hist>>

\* authenticate when redis.get in isSessionBlacklisted throws: the catch block
\* passes the error on, next(error), and errorHandler answers 500
AuthenticateLookupFails(q) ==
  /\ q \in InFlight /\ q.kind = "auth" /\ q.pc = "verify"
  /\ LET token == IF q.access # NoToken THEN q.access ELSE q.bearer
     IN /\ token # NoToken /\ verifyAccessToken(token, now) = "ok"
        /\ reqs' = Swap(q, Fail([q EXCEPT !.flag = @ \cup {"storeFailed"}],
                                500, "INTERNAL_ERROR"))
  /\ UNCHANGED <<now, users, session, blacklist, ratelimit, authLimit, client,
                 shop, nextSid, born, parent, jar, hist>>

\* refreshToken when redis.get(`session:...`) throws: asyncHandler passes the
\* error to errorHandler, 500
RefreshGetFails(q) ==
  /\ q \in InFlight /\ q.kind = "refresh" /\ q.pc = "get"
  /\ q.refresh # NoToken /\ verifyRefreshToken(q.refresh, now) = "ok"
  /\ reqs' = Swap(q, Fail([q EXCEPT !.flag = @ \cup {"storeFailed"}],
                          500, "INTERNAL_ERROR"))
  /\ UNCHANGED <<now, users, session, blacklist, ratelimit, authLimit, client,
                 shop, nextSid, born, parent, jar, hist>>

\* logout when blacklistSession throws: the empty catch block swallows the
\* error, redis.del is skipped, clearAuthCookies, 200
LogoutBlacklistFails(q) ==
  /\ q \in InFlight /\ q.kind = "logout" /\ q.pc = "blacklist"
  /\ q.refresh # NoToken /\ verifyRefreshToken(q.refresh, now) = "ok"
  /\ reqs' = Swap(q, [Succeed([q EXCEPT !.payload = q.refresh,
                                        !.flag = @ \cup {"storeFailed"}])
                        EXCEPT !.cleared = TRUE])
  /\ hist' = LogoutAnswered(q)
  /\ UNCHANGED <<now, users, session, blacklist, ratelimit, authLimit, client,
                 shop, nextSid, born, parent, jar>>

\* logout when redis.del throws after the blacklist entry was written: the
\* catch block swallows the error, clearAuthCookies, 200
LogoutDelFails(q) ==
  /\ q \in InFlight /\ q.kind = "logout" /\ q.pc = "del"
  /\ reqs' = Swap(q, [Succeed([q EXCEPT !.flag = @ \cup {"storeFailed"}])
                        EXCEPT !.cleared = TRUE])
  /\ hist' = LogoutAnswered(q)
  /\ UNCHANGED <<now, users, session, blacklist, ratelimit, authLimit, client,
                 shop, nextSid, born, parent, jar>>

\* After one login, requests with the issued tokens are handled one at a
\* time while Redis may fail to answer any command of theirs.
NextOutage ==
  \/ FirstLogin
  \/ /\ Room
     /\ \A q \in InFlight : q.pc = "done"
     /\ \/ \E tok \in AccessTokens : StartAuth("auth", FALSE, FALSE, tok)
        \/ \E tok \in RefreshTokens :
             StartRefresh(FALSE, tok) \/ StartLogout(FALSE, tok)
  \/ VerifySteps
  \/ Refresh
  \/ Logout
  \/ \E q \in InFlight :
       \/ AuthenticateLookupFails(q)
       \/ RefreshGetFails(q)
       \/ LogoutBlacklistFails(q)
       \/ LogoutDelFails(q)
  \/ \E q \in InFlight : Deliver(q)

SpecOutage == Init /\ [][NextOutage]_vars

\* ---- The ledger over the lifetime of a refresh token ----
\* A wait that ends one clock unit before a refresh token issued at its
\* start expires
LongWait == RefreshExpiry - 1

\* After one login, refresh and logout requests with the issued refresh
\* tokens are handled one after the other; the clock runs, with a long wait
\* in between.  The answer to a logout stays on record.
NextLedger ==
  \/ TickTo(MaxTime)
  \/ now <= MaxTime /\ Pass(LongWait, LongWait + MaxTime)
  \/ now >= LongWait /\ TickTo(LongWait + MaxTime + 1)
  \/ FirstLogin
  \/ /\ Idle
     /\ \E tok \in RefreshTokens : StartRefresh(FALSE, tok) \/ StartLogout(FALSE, tok)
  \/ Refresh
  \/ Logout
  \/ \E q \in InFlight : q.kind # "logout" /\ Deliver(q)

SpecLedger == Init /\ [][NextLedger]_vars

\* ---- Password reset ----
\* POST /auth/reset-password arrives with a reset token that matches the
\* account's stored hash and has not expired.
StartReset(u) ==
  /\ reqs' = Put([BaseReq EXCEPT !.kind = "reset", !.pc = "update", !.email = u])
  /\ UNCHANGED <<now, users, session, blacklist, ratelimit, authLimit, client,
                 shop, nextSid, born, parent, jar, hist>>

\* resetPassword up to prisma.user.update: the new hash is stored, the reset
\* token, failedLoginAttempts and lockedUntil are cleared
ResetUpdate(q) ==
  /\ q \in InFlight /\ q.kind = "reset" /\ q.pc = "update"
  /\ users' = [users EXCEPT ![q.email].failedLoginAttempts = 0,
                            ![q.email].lockedUntil = Null]
  /\ reqs' = Swap(q, [q EXCEPT !.pc = "sessions"])
  /\ UNCHANGED <<now, session, blacklist, ratelimit, authLimit, client, shop,
                 nextSid, born, parent, jar, hist>>

\* resetPassword: redis.keys(`session:*`), redis.del of every key whose
\* userId is the account's, 200.  The history notes the session ids the
\* account had been given by then.
ResetSessions(q) ==
  /\ q \in InFlight /\ q.kind = "reset" /\ q.pc = "sessions"
  /\ session' = [s \in Sids |->
                   IF redisGetSession(s).uid = q.email THEN NoSession ELSE session[s]]
  /\ reqs' = Swap(q, Succeed(q))
  /\ hist' = [hist EXCEPT !.reset = @ \cup {s \in Sids : born[s].uid = q.email}]
  /\ UNCHANGED <<now, users, blacklist, ratelimit, authLimit, client, shop,
                 nextSid, born, parent, jar>>

\* After one login, requests with the issued tokens and password resets of
\* the account are handled one after the other; the clock runs.
NextReset ==
  \/ Tick
  \/ FirstLogin
  \/ /\ Idle
     /\ \/ \E tok \in AccessTokens : StartAuth("auth", FALSE, FALSE, tok)
        \/ \E tok \in RefreshTokens : StartRefresh(FALSE, tok)
        \/ StartReset(Target)
  \/ VerifySteps
  \/ Refresh
  \/ \E q \in InFlight : ResetUpdate(q) \/ ResetSessions(q)
  \/ \E q \in InFlight : Deliver(q)

SpecReset == Init /\ [][NextReset]_vars

\* C16: once the counter of a window has an expiry, no call of checkRateLimit
\* on the key moves that expiry later.
C16_WindowEndFixed ==
  [][(ratelimit[WatchedKey].exp > 0 /\ ratelimit'[WatchedKey].exp > 0)
       => ratelimit'[WatchedKey].exp <= ratelimit[WatchedKey].exp]_vars

\* Answered login attempts on an account nobody had tried in the current
\* windows, from an address whose attempts against another account were
\* used up
FreshPairLogins ==
  {q \in InFlight : /\ q.kind = "login" /\ q.pc = "done"
                    /\ {"freshPair", "otherExhausted"} \subseteq q.flag}

\* C17 as stated: after the attempts from one address against account A are
\* used up, an attempt from that address against an account B without
\* attempts in the window is not rejected for rate-limit reasons.
C17_PairIndependent ==
  \A q \in FreshPairLogins : q.status # 429

\* C17 amended: such an attempt is never rejected by the login handler's
\* limiter (RATE_LIMITED); when it is answered 429, it was turned away by the
\* per-address limiter in front of the authentication routes.
C17_PairIndependentInHandler ==
  \A q \in FreshPairLogins :
    /\ q.code # "RATE_LIMITED"
    /\ q.status = 429 => "turnedAway" \in q.flag

\* C17 witness: an attempt against B gets past both limiters to the
\* credential check although the address's attempts against A are used up.
C17_Witness ==
  \E q \in FreshPairLogins : q.status # 429 /\ "turnedAway" \notin q.flag

\* Requests that authenticate answers in this step after looking the
\* account up
AnsweredByLookup ==
  {q \in InFlight' \ InFlight :
     q.kind = "auth" /\ q.pc = "done" /\ q.payload # NoToken}

\* C18: when authenticate answers after looking the account up, it attaches
\* an identity only if the account is active and not locked at that moment;
\* a deactivated account gets 403 ACCOUNT_DEACTIVATED and a locked one 403
\* ACCOUNT_LOCKED, whatever was true when the token was issued.
C18_AccountRechecked ==
  [][\A q \in AnsweredByLookup :
       LET u == q.payload.uid
       IN /\ q.identity # "none"
               => q.identity = u /\ users[u].isActive /\ ~Locked(u)
          /\ ~users[u].isActive
               => q.status = 403 /\ q.code = "ACCOUNT_DEACTIVATED"
          /\ users[u].isActive /\ Locked(u)
               => q.status = 403 /\ q.code = "ACCOUNT_LOCKED"]_vars

\* C18 witness: with tokens issued while the account was in order, one
\* request was rejected for the lock and a later one for the deactivation.
C18_Witness ==
  \E q, r \in InFlight :
    /\ q.kind = "auth" /\ q.code = "ACCOUNT_LOCKED" /\ q.identity = "none"
    /\ r.kind = "auth" /\ r.code = "ACCOUNT_DEACTIVATED" /\ r.identity = "none"
    /\ q.payload.uid = Target /\ r.payload.uid = Target

\* C19: a login attempt with a wrong password that the rate limiter lets
\* through is answered like an attempt on an unknown email, 401
\* INVALID_CREDENTIALS, whatever the state of the account.
C19_NoEnumeration ==
  \A q \in InFlight :
    (/\ q.kind = "login" /\ q.pc = "done" /\ q.password = "wrong"
     /\ q.status # 429)
      => q.status = 401 /\ q.code = "INVALID_CREDENTIALS"

\* Requests that authenticate has answered
AuthAnswers == {q \in InFlight : q.kind = "auth" /\ q.pc = "done"}

TokenRejections == {"UNAUTHORIZED", "TOKEN_EXPIRED", "INVALID_TOKEN"}

\* C20 as stated: authenticate answers UNAUTHORIZED without a token, else
\* TOKEN_EXPIRED for a token past its expiry, else INVALID_TOKEN for a token
\* with a bad signature; no identity is attached in these rejections, and
\* only a token that verified goes on to the blacklist and the account.
C20_ErrorOrder ==
  \A q \in AuthAnswers :
    /\ "noToken" \in q.flag => q.code = "UNAUTHORIZED"
    /\ ("noToken" \notin q.flag /\ "expired" \in q.flag) => q.code = "TOKEN_EXPIRED"
    /\ ("noToken" \notin q.flag /\ "expired" \notin q.flag /\ "badSignature" \in q.flag)
         => q.code = "INVALID_TOKEN"
    /\ q.flag \cap {"noToken", "expired", "badSignature"} = {}
         => q.code \notin TokenRejections
    /\ q.code \in TokenRejections
         => q.status = 401 /\ q.identity = "none" /\ q.payload = NoToken

\* C20 amended: the signature is checked before the expiry: a token with a
\* bad signature gives INVALID_TOKEN also when it is past its expiry, and
\* TOKEN_EXPIRED is the answer to a correctly signed token past its expiry.
C20_ErrorOrderSignatureFirst ==
  \A q \in AuthAnswers :
    /\ "noToken" \in q.flag => q.code = "UNAUTHORIZED"
    /\ "badSignature" \in q.flag => q.code = "INVALID_TOKEN"
    /\ (q.flag \cap {"noToken", "badSignature"} = {} /\ "expired" \in q.flag)
         => q.code = "TOKEN_EXPIRED"
    /\ q.flag \cap {"noToken", "expired", "badSignature"} = {}
         => q.code \notin TokenRejections
    /\ q.code \in TokenRejections
         => q.status = 401 /\ q.identity = "none" /\ q.payload = NoToken

\* C20 witness: a token that is both badly signed and past its expiry has
\* been answered INVALID_TOKEN.
C20_Witness ==
  \E q \in AuthAnswers :
    /\ {"expired", "badSignature"} \subseteq q.flag
    /\ q.code = "INVALID_TOKEN" /\ q.identity = "none"

\* C21: a refresh request whose token is past its expiry or fails the
\* signature check is answered 401 with TOKEN_EXPIRED or INVALID_TOKEN, never
\* as an internal error, and no tokens are issued.
C21_RefreshTokenErrors ==
  \A q \in InFlight :
    (/\ q.kind = "refresh" /\ q.pc = "done" /\ "noToken" \notin q.flag
     /\ q.flag \cap {"expired", "badSignature"} # {})
      => /\ q.status = 401
         /\ q.code \in {"TOKEN_EXPIRED", "INVALID_TOKEN"}
         /\ NoTokensIssued(q)

\* C22: a request whose blacklist lookup (authenticate) or session lookup
\* (refresh) failed is rejected: it goes no further, attaches no identity,
\* issues no tokens and creates no session.
C22_FailClosed ==
  \A q \in InFlight :
    (q.kind \in {"auth", "refresh"} /\ "storeFailed" \in q.flag)
      => /\ q.pc = "done" /\ q.status = 500
         /\ q.identity = "none"
         /\ NoTokensIssued(q)
         /\ q.newSid = 0

\* C22 witness: a request behind authenticate and a refresh request, both
\* with tokens that verify, were answered after their lookups failed.
C22_Witness ==
  \E q, r \in InFlight :
    /\ q.kind = "auth" /\ r.kind = "refresh"
    /\ "storeFailed" \in q.flag /\ "storeFailed" \in r.flag
    /\ q.pc = "done" /\ r.pc = "done"

\* C28: once logout has answered success to a request whose refresh token
\* verified, that token's session id is blacklisted and its registry entry
\* is absent.
C28_LogoutTookEffect ==
  \A q \in InFlight :
    (/\ q.kind = "logout" /\ q.pc = "done" /\ q.status = 200
     /\ q.payload # NoToken)
      => /\ BlacklistKeyLive(q.payload.sid)
         /\ redisGetSession(q.payload.sid) = NoSession

\* What logout is about in the stores: which session ids are blacklisted
\* and which have a registry entry
Revoked(bl, se) ==
  [s \in Sids |-> [listed |-> bl[s] # Null /\ bl[s] > now,
                   entry |-> se[s].exp # Null /\ se[s].exp > now]]

\* C23: a step of a logout handler whose refresh token was already logged
\* out leaves every session id as it was, blacklisted or not, with a
\* registry entry or not; a step of a logout without a token changes no
\* store; and every logout is answered success.
C23_LogoutIdempotent ==
  [][\A q \in InFlight :
       (/\ q.kind = "logout" /\ q.pc \in {"blacklist", "del"}
        /\ CopiesIn(q, reqs') < CopiesIn(q, reqs))
         => /\ "again" \in q.flag
                 => Revoked(blacklist', session') = Revoked(blacklist, session)
            /\ q.refresh = NoToken
                 => session' = session /\ blacklist' = blacklist
            /\ \A r \in InFlight' \ InFlight :
                 r.pc = "done" => r.status = 200 /\ r.cleared]_vars

\* C23 witness: a second logout with a refresh token that was already
\* logged out has been answered success, the session id still blacklisted
\* and without a registry entry.
C23_Witness ==
  \E q \in InFlight :
    /\ q.kind = "logout" /\ q.pc = "done" /\ "again" \in q.flag
    /\ q.status = 200 /\ q.payload # NoToken
    /\ BlacklistKeyLive(q.payload.sid)
    /\ redisGetSession(q.payload.sid) = NoSession

\* C24: a blacklist entry disappears only once the refresh token (and so
\* the access token) that carries its session id has expired, and it never
\* lies further ahead than the lifetime of a refresh token, so that its own
\* TTL removes it within that time of being written.
C24_LedgerOutlivesTokens ==
  /\ [](\A s \in Sids : blacklist[s] # Null =>
            blacklist[s] > now /\ blacklist[s] <= now + RefreshExpiry)
  /\ [][\A s \in Sids :
          (BlacklistKeyLive(s) /\ ~BlacklistKeyLive(s)')
            => /\ born[s] # NoBirth
               /\ now' >= born[s].at + RefreshExpiry
               /\ now' >= born[s].at + AccessExpiry]_vars

\* C24 witness: the entry that a logout wrote is gone again, its refresh
\* token having expired.
C24_Witness ==
  \E q \in InFlight :
    /\ q.kind = "logout" /\ q.pc = "done" /\ q.payload # NoToken
    /\ blacklist[q.payload.sid] = Null
    /\ now >= q.payload.exp

\* C25: once a password reset of an account has completed, no token of a
\* session the account had before is accepted: authenticate attaches no
\* identity for its access token and refresh issues nothing for its refresh
\* token; the reset leaves the sessions of other accounts alone.
C25_ResetInvalidates ==
  [][/\ \A q \in AnsweredByLookup :
          q.identity # "none" => q.payload.sid \notin hist.reset
     /\ \A q \in InFlight' \ InFlight :
          (q.kind = "refresh" /\ q.pc = "done" /\ q.newSid # 0)
            => q.payload.sid \notin hist.reset
     /\ \A q \in InFlight :
          (q.kind = "reset" /\ q.pc = "sessions" /\ q \notin InFlight')
            => \A s \in Sids : session[s].uid # q.email => session'[s] = session[s]]_vars

\* C26: when authenticate answers a browser's request TOKEN_EXPIRED, the
\* response leaves the refresh_token cookie in place.
C26_ExpiredKeepsRefresh ==
  \A q \in InFlight :
    (q.kind = "auth" /\ q.pc = "done" /\ q.browser /\ q.code = "TOKEN_EXPIRED")
      => ~q.cleared

----------------------------------------------------------------------------
\* The front end's axios instance.  One call of the application goes out; the
\* response interceptor of the instance sees every rejected response, those of
\* the refresh requests it posts through the same instance included.  depth
\* counts the interceptor invocations suspended at `await api.post(...)`:
\* the first one handles the application's request, each further one the
\* refresh request posted by the invocation below it.

MaxFrames == 3

NoCall == [pc |-> "idle", depth |-> 0, refreshes |-> 0, retries |-> 0,
           redirects |-> 0]

\* What the server can answer to a request of the client.
ServerAnswers == {200, 401, 429, 500}

\* api.get / api.post by the application.
ClientSend ==
  /\ client.pc \in {"idle", "resolved", "rejected"}
  /\ client' = [NoCall EXCEPT !.pc = "orig"]
  /\ UNCHANGED <<now, users, session, blacklist, ratelimit, authLimit, shop,
                 nextSid, born, parent, jar, reqs, hist>>

\* `originalRequest._retry = true; await api.post('/auth/refresh')`: the
\* request that was answered 401 is marked and a refresh request with a
\* configuration of its own goes out.
InterceptorRefresh(c) ==
  [c EXCEPT !.pc = "refresh", !.depth = @ + 1, !.refreshes = @ + 1]

\* `return api(originalRequest)`: the invocation on top of the stack sends its
\* marked request again, the application's request or a refresh request.
InterceptorRetry(c) ==
  IF c.depth = 1
  THEN [c EXCEPT !.pc = "retry", !.depth = 0, !.retries = @ + 1]
  ELSE [c EXCEPT !.pc = "retry", !.depth = @ - 1, !.refreshes = @ + 1]

\* The request in flight settles with a rejection: the application sees it
\* when no invocation waits for it, otherwise that invocation's catch runs.
InterceptorReject(c) ==
  [c EXCEPT !.pc = IF c.depth = 0 THEN "rejected" ELSE "catch"]

InterceptorResolve(c) ==
  IF c.depth = 0 THEN [c EXCEPT !.pc = "resolved"] ELSE InterceptorRetry(c)

\* The response interceptor, for the answer s to the request in flight.  A
\* refresh request is a request under /auth: the router's limiter counts it
\* on its way in and answers 429 itself beyond max.
ClientAnswer(s) ==
  LET k == authLimitKey("ip1", "none")
      live == authLimit[k].count > 0 /\ authLimit[k].exp > now
      hits == IF live THEN authLimit[k].count + 1 ELSE 1
      onAuth == client.pc = "refresh" \/ (client.pc = "retry" /\ client.depth > 0)
      c == IF s = 200 THEN InterceptorResolve(client)
           ELSE IF s = 401 /\ client.pc # "retry" THEN InterceptorRefresh(client)
           ELSE InterceptorReject(client)
  IN /\ client.pc \in {"orig", "refresh", "retry"}
     /\ (onAuth /\ authLimit[k].count > AuthRateMax) => s = 429
     /\ c.depth <= MaxFrames
     /\ client' = c
     /\ IF c.refreshes > client.refreshes
        THEN /\ hits <= MaxRateCount
             /\ authLimit' = [authLimit EXCEPT ![k] =
                   [count |-> hits,
                    exp |-> IF live THEN @.exp ELSE now + AuthRateWindow]]
        ELSE UNCHANGED authLimit
     /\ UNCHANGED <<now, users, session, blacklist, ratelimit, shop, nextSid,
                    born, parent, jar, reqs, hist>>

\* `catch { window.location.href = '/login'; return Promise.reject(error) }`
\* of the invocation on top of the stack; its rejection is the outcome of the
\* request it handled.
ClientCatch ==
  /\ client.pc = "catch"
  /\ client' = InterceptorReject([client EXCEPT !.depth = @ - 1,
                                                !.redirects = @ + 1])
  /\ UNCHANGED <<now, users, session, blacklist, ratelimit, authLimit, shop,
                 nextSid, born, parent, jar, reqs, hist>>

NextClient ==
  \/ TickTo(MaxTime)
  \/ ClientSend
  \/ \E s \in ServerAnswers : ClientAnswer(s)
  \/ ClientCatch

SpecClient == Init /\ [][NextClient]_vars

\* C27: handling one call, the interceptor posts at most one refresh request
\* and sends the call again at most once, and a call that ended with a
\* rejection after a failed refresh has redirected to /login.
C27_OneRefreshOneRetry ==
  /\ client.refreshes <= 1
  /\ client.retries <= 1
  /\ client.redirects <= 1

----------------------------------------------------------------------------
\* Orders.  One product; shop.quantity is product.quantity, shop.orders the
\* order table (an order's id is its index), shop.calls the handlers that
\* have read and wait for their transaction.  The callers have passed
\* authenticate, and authorize where the route asks for it.

OrderStatuses ==
  {"PENDING", "PROCESSING", "SHIPPED", "DELIVERED", "CANCELLED", "REFUNDED"}

OrderIds == 1..Len(shop.orders)

OrdersUnchanged ==
  UNCHANGED <<now, users, session, blacklist, ratelimit, authLimit, client,
              nextSid, born, parent, jar, reqs, hist>>

\* POST /orders up to the transaction: the cart of the user holds n of the
\* product; the handler throws 400 when product.quantity < item.quantity and
\* otherwise goes on with the cart it has read.
CreateOrderCheck(u, n) ==
  /\ Cardinality(shop.calls) < MaxInflight
  /\ Len(shop.orders)
       + Cardinality({c \in shop.calls : c.kind = "create"}) < MaxOrders
  /\ \A c \in shop.calls : c.kind = "create" => c.userId # u
  /\ ~(shop.quantity < n)
  /\ shop' = [shop EXCEPT !.calls = @ \cup
                {[kind |-> "create", userId |-> u, id |-> 0, quantity |-> n]}]
  /\ OrdersUnchanged

\* prisma.$transaction of POST /orders: order.create with status PENDING and
\* product.update with quantity: { decrement: item.quantity }.
CreateOrderTransaction(c) ==
  /\ c \in shop.calls /\ c.kind = "create"
  /\ shop' = [quantity |-> shop.quantity - c.quantity,
              orders |-> Append(shop.orders,
                                [userId |-> c.userId, status |-> "PENDING",
                                 quantity |-> c.quantity]),
              calls |-> shop.calls \ {c}]
  /\ OrdersUnchanged

\* POST /orders/:id/cancel up to the transaction: findFirst by id and userId
\* (404 when there is none), 400 unless the status read is PENDING or
\* PROCESSING.
CancelOrderCheck(u, id) ==
  /\ Cardinality(shop.calls) < MaxInflight
  /\ id \in OrderIds
  /\ shop.orders[id].userId = u
  /\ shop.orders[id].status \in {"PENDING", "PROCESSING"}
  /\ shop' = [shop EXCEPT !.calls = @ \cup
                {[kind |-> "cancel", userId |-> u, id |-> id,
                  quantity |-> shop.orders[id].quantity]}]
  /\ OrdersUnchanged

\* prisma.$transaction of the cancel: order.update to CANCELLED and
\* product.update with quantity: { increment: item.quantity } for the items
\* read before.
CancelOrderTransaction(c) ==
  /\ c \in shop.calls /\ c.kind = "cancel"
  /\ shop.quantity + c.quantity <= MaxQuantity
  /\ shop' = [quantity |-> shop.quantity + c.quantity,
              orders |-> [shop.orders EXCEPT ![c.id].status = "CANCELLED"],
              calls |-> shop.calls \ {c}]
  /\ OrdersUnchanged

\* PUT /orders/:id/status by an admin or manager: any valid status is written.
UpdateOrderStatus(id, status) ==
  /\ status \in OrderStatuses
  /\ id \in OrderIds
  /\ shop.orders[id].status # status
  /\ shop' = [shop EXCEPT !.orders[id].status = status]
  /\ OrdersUnchanged

NextOrders ==
  \/ \E u \in UserIds, n \in 1..InitialStock : CreateOrderCheck(u, n)
  \/ \E c \in shop.calls : CreateOrderTransaction(c)
  \/ \E u \in UserIds, id \in OrderIds : CancelOrderCheck(u, id)
  \/ \E c \in shop.calls : CancelOrderTransaction(c)
  \/ \E id \in OrderIds, status \in OrderStatuses : UpdateOrderStatus(id, status)

SpecOrders == Init /\ [][NextOrders]_vars

\* C29: the stock of the product never becomes negative.
C29_StockNeverNegative == shop.quantity >= 0

\* The quantity held by the orders that are not cancelled
Held ==
  SumOver([id \in OrderIds |-> IF shop.orders[id].status = "CANCELLED" THEN 0
                               ELSE shop.orders[id].quantity], OrderIds)

\* C30: stock plus the quantities held by the orders that are not cancelled
\* is the initial stock.
C30_InventoryConserved == shop.quantity + Held = InitialStock
====
